---- MODULE Spec2Model ----
(***************************************************************************)
(* Model of src/main.py: a one-directional mirror of a local directory     *)
(* tree into a Google Drive folder.  The remote store is a sequence of     *)
(* entries; the id of an entry is its position, the target folder is id 0. *)
(* The recursion of upload_directory is an explicit stack of frames, one   *)
(* step per remote call (list, create folder, next_chunk).                 *)
(***************************************************************************)
EXTENDS Naturals, Sequences, FiniteSets

VARIABLES
    tree,       \* the local root directory: a listing (sequence of entries)
    remote,     \* the remote store: sequence of entries, id = index
    remote0,    \* the remote store before the first run
    runStart,   \* the remote store at the start of the current run
    status,     \* "idle" | "running" | "done" | "failed"
    run,        \* "first" | "rerun"
    first,      \* how the first run ended: "none" | "done" | "failed"
    stack,      \* call stack of upload_directory frames, top = last
    pc,         \* position inside the top frame: "loop" | "create_folder" | "upload"
    sent,       \* chunks sent by the upload in progress
    log,        \* entries resolved in the current run, in order
    firstLog,   \* the log of the first run
    calls,      \* remote calls issued in the current run
    errors,     \* remote errors raised in the current run
    callsAtError, \* value of calls when the error was raised
    rootBar,    \* the progress bar of the outermost upload_directory
    updates,    \* pbar.update calls of the current run, over all bars
    lastOp      \* the last get_or_create_folder / upload_file that returned

vars == <<tree, remote, remote0, runStart, status, run, first, stack, pc, sent,
          log, firstLog, calls, errors, callsAtError, rootBar, updates, lastOp>>

----------------------------------------------------------------------------
(* Bounds of the model *)

\* nodes (files and directories) of the local tree below the root
MaxNodes == 3
\* entries of the remote store before the first run
MaxInitRemote == 1

Names == {"a", "b"}
\* a file content; content c takes c chunks of 1 MiB to upload
Contents == {1, 2}

----------------------------------------------------------------------------
(* Local file system *)

File(n, c) == [kind |-> "file", name |-> n, content |-> c, children |-> <<>>]
Dir(n, ch) == [kind |-> "dir", name |-> n, content |-> 0, children |-> ch]

RECURSIVE Size(_)
Size(items) ==
    IF items = <<>> THEN 0
    ELSE 1 + Size(Head(items).children) + Size(Tail(items))

NamesOf(items) == {items[i].name : i \in 1..Len(items)}

RECURSIVE Listings(_)
Listings(n) ==
    IF n = 0 THEN {<<>>}
    ELSE LET entries == {File(nm, c) : nm \in Names, c \in Contents}
                        \cup {Dir(nm, ch) : nm \in Names, ch \in Listings(n - 1)}
         IN  {<<>>} \cup
             UNION {{<<e>> \o r : r \in {x \in Listings(n - Size(<<e>>)) :
                                              e.name \notin NamesOf(x)}}
                    : e \in entries}

\* MD5 of a content: a function of the bytes alone
calculate_md5(content) == <<"md5", content>>

NoDigest == <<"none">>

\* next_chunk calls a resumable upload of this content needs
NumChunks(content) == content

RECURSIVE count_files(_)
count_files(items) ==
    IF items = <<>> THEN 0
    ELSE (IF Head(items).kind = "dir" THEN count_files(Head(items).children)
          ELSE IF Head(items).kind = "file" THEN 1 ELSE 0)
         + count_files(Tail(items))

----------------------------------------------------------------------------
(* Remote store *)

TargetId == 0

NewFolder(folder_name, parent_id) ==
    [name |-> folder_name, parent |-> parent_id, folder |-> TRUE, md5 |-> NoDigest]

NewFile(file_name, folder_id, file_md5) ==
    [name |-> file_name, parent |-> folder_id, folder |-> FALSE, md5 |-> file_md5]

FolderIds(rem) == {i \in 1..Len(rem) : rem[i].folder}

RECURSIVE RemoteStates(_)
RemoteStates(n) ==
    IF n = 0 THEN {<<>>}
    ELSE LET prev == RemoteStates(n - 1)
         IN  prev \cup
             UNION {{Append(s, e) :
                       e \in {NewFolder(nm, p) : nm \in Names, p \in {TargetId} \cup FolderIds(s)}
                             \cup {NewFile(nm, p, calculate_md5(c)) :
                                     nm \in Names, p \in {TargetId} \cup FolderIds(s),
                                     c \in Contents}}
                    : s \in {x \in prev : Len(x) = n - 1}}

Ids(rem) == [i \in 1..Len(rem) |-> i]

\* (mutation) the folder query finds nothing
ListFoldersNone(rem, parent_id, folder_name) == <<>>

\* (mutation) the folder query lost its parent clause
ListFoldersAnywhere(rem, parent_id, folder_name) ==
    SelectSeq([i \in 1..Len(rem) |-> i],
              LAMBDA i : rem[i].name = folder_name /\ rem[i].folder)

\* files().list(q = "'<parent>' in parents and name='<n>' and mimeType='...folder'")
ListFolders(rem, parent_id, folder_name) ==
    SelectSeq(Ids(rem), LAMBDA i : /\ rem[i].parent = parent_id
                                   /\ rem[i].name = folder_name
                                   /\ rem[i].folder)

\* files().list(q = "'<parent>' in parents and name='<n>' and mimeType!='...folder'")
ListFiles(rem, folder_id, file_name) ==
    SelectSeq(Ids(rem), LAMBDA i : /\ rem[i].parent = folder_id
                                   /\ rem[i].name = file_name
                                   /\ ~rem[i].folder)

\* (mutation) the existence check never finds the file
file_exists_never(rem, folder_id, file_name, file_md5) == FALSE

\* (mutation) the existence check compares the name only
file_exists_by_name(rem, folder_id, file_name, file_md5) ==
    \E i \in 1..Len(rem) :
        rem[i].parent = folder_id /\ rem[i].name = file_name /\ ~rem[i].folder

file_exists(rem, folder_id, file_name, file_md5) ==
    LET items == ListFiles(rem, folder_id, file_name)
    IN  \E k \in 1..Len(items) : rem[items[k]].md5 = file_md5

\* files().create of a folder / of an uploaded file
StoreFolder(rem, folder_name, parent_id) == Append(rem, NewFolder(folder_name, parent_id))

\* (mutation) an upload replaces a remote file of the same name
StoreFileOverwrite(rem, file_name, folder_id, file_md5) ==
    LET same == {i \in 1..Len(rem) : rem[i].parent = folder_id /\ rem[i].name = file_name
                                      /\ ~rem[i].folder}
    IN  IF same # {}
        THEN [rem EXCEPT ![CHOOSE i \in same : TRUE] =
                            [name |-> file_name, parent |-> folder_id, folder |-> FALSE,
                             md5 |-> file_md5]]
        ELSE Append(rem, [name |-> file_name, parent |-> folder_id, folder |-> FALSE,
                          md5 |-> file_md5])

StoreFile(rem, file_name, folder_id, file_md5) ==
    Append(rem, NewFile(file_name, folder_id, file_md5))

----------------------------------------------------------------------------
(* upload_directory as a stack machine *)

\* (mutation) the recursion passes the target folder instead of the resolved folder
FrameAtTarget(items, parent_id, path) ==
    [items |-> items, i |-> 1, parent |-> TargetId, path |-> path,
     total |-> count_files(items), n |-> 0]

Frame(items, parent_id, path) ==
    [items |-> items, i |-> 1, parent |-> parent_id, path |-> path,
     total |-> count_files(items), n |-> 0]

Top == stack[Len(stack)]
HasItem == Top.i <= Len(Top.items)
Item == Top.items[Top.i]

\* (mutation) the loop skips the entry after a subdirectory
AdvanceSkip(f) == [f EXCEPT !.i = f.i + 2]

\* the for loop of the top frame moves to its next item
Advance(f) == [f EXCEPT !.i = f.i + 1]
\* pbar.update(1) on the frame's bar, then the next item
Update(f) == [f EXCEPT !.n = f.n + 1, !.i = f.i + 1]

SetTop(f) == [stack EXCEPT ![Len(stack)] = f]

NoOp == [op |-> "none", parent |-> 0, name |-> "", md5 |-> NoDigest, id |-> 0,
         uploaded |-> FALSE, before |-> <<>>, after |-> <<>>]

LogEntry(kind, path, parent_id, name, md5, id, created) ==
    [kind |-> kind, path |-> path, parent |-> parent_id, name |-> name,
     md5 |-> md5, id |-> id, created |-> created]

Init ==
    /\ tree \in Listings(MaxNodes)
    /\ remote0 \in RemoteStates(MaxInitRemote)
    /\ remote = remote0
    /\ runStart = remote0
    /\ status = "idle"
    /\ run = "first"
    /\ first = "none"
    /\ stack = <<>>
    /\ pc = "loop"
    /\ sent = 0
    /\ log = <<>>
    /\ firstLog = <<>>
    /\ calls = 0
    /\ errors = 0
    /\ callsAtError = 0
    /\ rootBar = [total |-> 0, n |-> 0]
    /\ updates = 0
    /\ lastOp = NoOp

\* upload_to_gdrive_from_local_dir: the outermost upload_directory is entered
Begin ==
    /\ stack' = <<Frame(tree, TargetId, <<>>)>>
    /\ status' = "running"
    /\ runStart' = remote
    /\ pc' = "loop"
    /\ sent' = 0
    /\ log' = <<>>
    /\ calls' = 0
    /\ errors' = 0
    /\ callsAtError' = 0
    /\ rootBar' = [total |-> count_files(tree), n |-> 0]
    /\ updates' = 0
    /\ lastOp' = NoOp

Start ==
    /\ status = "idle"
    /\ Begin
    /\ UNCHANGED <<tree, remote, remote0, run, first, firstLog>>

\* a second invocation of the program on the same local tree
Rerun ==
    /\ status \in {"done", "failed"}
    /\ run = "first"
    /\ run' = "rerun"
    /\ first' = status
    /\ firstLog' = log
    /\ Begin
    /\ UNCHANGED <<tree, remote, remote0>>

\* the for loop of the top frame is exhausted: its bar closes and it returns
Return ==
    /\ status = "running"
    /\ pc = "loop"
    /\ ~HasItem
    /\ IF Len(stack) = 1
       THEN /\ stack' = <<>>
            /\ status' = "done"
       ELSE /\ stack' = [SubSeq(stack, 1, Len(stack) - 1)
                           EXCEPT ![Len(stack) - 1] = Advance(stack[Len(stack) - 1])]
            /\ status' = status
    /\ UNCHANGED <<tree, remote, remote0, runStart, run, first, pc, sent, log,
                   firstLog, calls, errors, callsAtError, rootBar, updates, lastOp>>

\* upload_directory recurses into the directory with the resolved folder id
Enter(id, created, rem) ==
    /\ stack' = Append(stack, Frame(Item.children, id, Append(Top.path, Item.name)))
    /\ log' = Append(log, LogEntry("dir", Append(Top.path, Item.name), Top.parent,
                                   Item.name, NoDigest, id, created))
    /\ lastOp' = [op |-> "get_or_create_folder", parent |-> Top.parent,
                  name |-> Item.name, md5 |-> NoDigest, id |-> id,
                  uploaded |-> FALSE, before |-> remote, after |-> rem]
    /\ pc' = "loop"

\* get_or_create_folder: the list call and, when a folder is found, its return
GetFolder ==
    /\ status = "running"
    /\ pc = "loop"
    /\ HasItem
    /\ Item.kind = "dir"
    /\ calls' = calls + 1
    /\ LET items == ListFolders(remote, Top.parent, Item.name)
       IN  IF items # <<>>
           THEN Enter(items[1], FALSE, remote)
           ELSE /\ pc' = "create_folder"
                /\ UNCHANGED <<stack, log, lastOp>>
    /\ UNCHANGED <<tree, remote, remote0, runStart, status, run, first, sent,
                   firstLog, errors, callsAtError, rootBar, updates>>

\* get_or_create_folder: the create call
CreateFolder ==
    /\ status = "running"
    /\ pc = "create_folder"
    /\ calls' = calls + 1
    /\ remote' = StoreFolder(remote, Item.name, Top.parent)
    /\ Enter(Len(remote'), TRUE, remote')
    /\ UNCHANGED <<tree, remote0, runStart, status, run, first, sent, firstLog,
                   errors, callsAtError, rootBar, updates>>

\* upload_file returned: the bar of the frame is updated either way
Finished(uploaded, rem) ==
    /\ stack' = SetTop(Update(Top))
    /\ updates' = updates + 1
    /\ rootBar' = IF Len(stack) = 1 THEN [rootBar EXCEPT !.n = rootBar.n + 1]
                  ELSE rootBar
    /\ log' = Append(log, LogEntry("file", Append(Top.path, Item.name), Top.parent,
                                   Item.name, calculate_md5(Item.content),
                                   IF uploaded THEN Len(rem) ELSE 0, uploaded))
    /\ lastOp' = [op |-> "upload_file", parent |-> Top.parent, name |-> Item.name,
                  md5 |-> calculate_md5(Item.content),
                  id |-> IF uploaded THEN Len(rem) ELSE 0,
                  uploaded |-> uploaded, before |-> remote, after |-> rem]
    /\ pc' = "loop"
    /\ sent' = 0

\* upload_file: calculate_md5 and the list call of file_exists
FileExists ==
    /\ status = "running"
    /\ pc = "loop"
    /\ HasItem
    /\ Item.kind = "file"
    /\ calls' = calls + 1
    /\ IF file_exists(remote, Top.parent, Item.name, calculate_md5(Item.content))
       THEN Finished(FALSE, remote)
       ELSE /\ pc' = "upload"
            /\ sent' = 0
            /\ UNCHANGED <<stack, updates, rootBar, log, lastOp>>
    /\ UNCHANGED <<tree, remote, remote0, runStart, status, run, first, firstLog,
                   errors, callsAtError>>

\* the chunks acknowledged after one more next_chunk
NextSent(s) == s + 1

\* upload_file: one request.next_chunk(); the response is set with the last chunk
NextChunk ==
    /\ status = "running"
    /\ pc = "upload"
    /\ calls' = calls + 1
    /\ IF NextSent(sent) >= NumChunks(Item.content)
       THEN /\ remote' = StoreFile(remote, Item.name, Top.parent,
                                   calculate_md5(Item.content))
            /\ Finished(TRUE, remote')
       ELSE /\ sent' = NextSent(sent)
            /\ UNCHANGED <<remote, stack, updates, rootBar, log, lastOp, pc>>
    /\ UNCHANGED <<tree, remote0, runStart, status, run, first, firstLog,
                   errors, callsAtError>>

\* a remote call is about to be issued
AtRemoteCall == status = "running" /\ (pc # "loop" \/ HasItem)

\* (mutation) the error is caught and the loop goes on with the next entry
RemoteErrorSwallowed ==
    /\ AtRemoteCall
    /\ run = "first"
    /\ calls' = calls + 1
    /\ errors' = errors + 1
    /\ callsAtError' = calls + 1
    /\ stack' = [stack EXCEPT ![Len(stack)] = [@ EXCEPT !.i = @ + 1]]
    /\ pc' = "loop"
    /\ sent' = 0
    /\ UNCHANGED <<tree, remote, remote0, runStart, status, run, first, log, firstLog,
                   rootBar, updates, lastOp>>

\* the remote call raises: nothing catches it, every frame is left
RemoteError ==
    /\ AtRemoteCall
    /\ run = "first"
    /\ calls' = calls + 1
    /\ errors' = errors + 1
    /\ callsAtError' = calls + 1
    /\ status' = "failed"
    /\ stack' = <<>>
    /\ pc' = "loop"
    /\ sent' = 0
    /\ UNCHANGED <<tree, remote, remote0, runStart, run, first, log, firstLog,
                   rootBar, updates, lastOp>>

Next ==
    \/ Start
    \/ Rerun
    \/ Return
    \/ GetFolder
    \/ CreateFolder
    \/ FileExists
    \/ NextChunk
    \/ RemoteError

Spec == Init /\ [][Next]_vars

\* the run itself: no second invocation, no remote error; each blocking call returns
RunStep ==
    \/ Start
    \/ Return
    \/ GetFolder
    \/ CreateFolder
    \/ FileExists
    \/ NextChunk

LiveSpec == Init /\ [][RunStep]_vars /\ WF_vars(RunStep)

----------------------------------------------------------------------------
(* upload_directory as a function: the remote store one uninterrupted run    *)
(* leaves behind                                                             *)

RECURSIVE UploadDirectory(_, _, _)
UploadDirectory(items, parent_id, rem) ==
    IF items = <<>> THEN rem
    ELSE LET item == Head(items)
             after ==
               IF item.kind = "dir"
               THEN LET found == ListFolders(rem, parent_id, item.name)
                    IN  IF found # <<>>
                        THEN UploadDirectory(item.children, found[1], rem)
                        ELSE UploadDirectory(item.children, Len(rem) + 1,
                                             StoreFolder(rem, item.name, parent_id))
               ELSE IF file_exists(rem, parent_id, item.name, calculate_md5(item.content))
                    THEN rem
                    ELSE StoreFile(rem, item.name, parent_id, calculate_md5(item.content))
         IN  UploadDirectory(Tail(items), parent_id, after)

----------------------------------------------------------------------------
(* Properties *)

Created(l, kind) == {k \in 1..Len(l) : l[k].kind = kind /\ l[k].created}

\* C1 - idempotence: a run that follows a completed run on the same local tree
\* uploads no file and creates no folder; the remote store stays as the first
\* run left it.
C1_Idempotent ==
    (run = "rerun" /\ first = "done") =>
        /\ remote = runStart
        /\ \A k \in 1..Len(log) : ~log[k].created

C1_Witness ==
    /\ run = "rerun" /\ first = "done" /\ status = "done"
    /\ Created(firstLog, "file") # {}
    /\ Created(firstLog, "dir") # {}
    /\ Len(log) = Len(firstLog)

\* the remote store holds listing `items` under folder `parent_id`
RECURSIVE Mirrored(_, _, _)
Mirrored(items, parent_id, rem) ==
    \A i \in 1..Len(items) :
        IF items[i].kind = "dir"
        THEN \E id \in 1..Len(rem) :
                /\ rem[id].folder
                /\ rem[id].parent = parent_id
                /\ rem[id].name = items[i].name
                /\ Mirrored(items[i].children, id, rem)
        ELSE \E id \in 1..Len(rem) :
                /\ ~rem[id].folder
                /\ rem[id].parent = parent_id
                /\ rem[id].name = items[i].name
                /\ rem[id].md5 = calculate_md5(items[i].content)

\* C2 - mirror postcondition: after a run that completes, every local
\* directory has its chain of remote folders below the target folder and every
\* local file has a remote file of its name and digest in the folder of its
\* directory.
C2_Mirror == status = "done" => Mirrored(tree, TargetId, remote)

C2_Witness ==
    /\ status = "done" /\ run = "first"
    /\ tree = <<File("a", 1), Dir("b", <<File("b", 2)>>)>>
    /\ remote0 = <<>>
    /\ remote = <<NewFile("a", TargetId, calculate_md5(1)),
                  NewFolder("b", TargetId),
                  NewFile("b", 2, calculate_md5(2))>>

\* C3 - progress: after a full run the progress bar sized by the file count of
\* the root has been advanced once for every file of the whole tree.
C3_ProgressReachesTotal ==
    status = "done" =>
        /\ rootBar.total = count_files(tree)
        /\ rootBar.n = count_files(tree)

\* ids of the folders named `name` directly under `parent_id`
FoldersAt(rem, parent_id, name) ==
    {i \in 1..Len(rem) : rem[i].folder /\ rem[i].parent = parent_id /\ rem[i].name = name}

\* folders created by the current run under `parent_id` with name `name`
NewFolders(parent_id, name) ==
    {i \in (Len(runStart) + 1)..Len(remote) :
        remote[i].folder /\ remote[i].parent = parent_id /\ remote[i].name = name}

DirsVisited == {k \in 1..Len(log) : log[k].kind = "dir"}

\* C4 (as stated) - a completed run has created exactly one folder for the
\* (parent, name) pair of every directory it visited.
C4_ExactlyOneCreated ==
    status = "done" =>
        \A k \in DirsVisited : Cardinality(NewFolders(log[k].parent, log[k].name)) = 1

\* C4 (amended) - a run creates at most one folder per (parent, name) pair;
\* for a directory it visited it has created exactly one when no folder of
\* that name was under that parent at the start of the run and none when one
\* was, whether or not the directory holds files.
C4_OnePerPair ==
    /\ \A p \in 0..Len(remote) : \A n \in Names : Cardinality(NewFolders(p, n)) <= 1
    /\ \A k \in DirsVisited :
          Cardinality(NewFolders(log[k].parent, log[k].name))
            = IF FoldersAt(runStart, log[k].parent, log[k].name) = {} THEN 1 ELSE 0

C4_Witness ==
    /\ status = "done" /\ run = "first"
    /\ tree = <<Dir("a", <<>>), Dir("b", <<Dir("a", <<>>)>>)>>
    /\ remote0 = <<NewFolder("b", TargetId)>>
    /\ Len(remote) = 3

\* C5 - no deletion, no update: every step keeps every remote entry where it
\* is and as it is; the remote store only grows at its end.
C5_OnlyCreates ==
    [][/\ Len(remote') >= Len(remote)
       /\ \A i \in 1..Len(remote) : remote'[i] = remote[i]]_vars

C5_Witness ==
    /\ status = "failed"
    /\ remote0 # <<>>
    /\ Len(remote) = Len(remote0) + 2

Matches(rem, parent_id, name, md5) ==
    \E i \in 1..Len(rem) :
        ~rem[i].folder /\ rem[i].parent = parent_id /\ rem[i].name = name
        /\ rem[i].md5 = md5

\* C6 - upload decision: upload_file skips (and changes nothing) exactly when
\* a remote file of that parent, name and digest exists; otherwise it adds
\* exactly one remote file of that name and parent, also next to a file of the
\* same name and another digest.
C6_UploadDecision ==
    lastOp.op = "upload_file" =>
        /\ ~lastOp.uploaded <=> Matches(lastOp.before, lastOp.parent, lastOp.name, lastOp.md5)
        /\ ~lastOp.uploaded => lastOp.after = lastOp.before
        /\ lastOp.uploaded =>
              /\ Len(lastOp.after) = Len(lastOp.before) + 1
              /\ SubSeq(lastOp.after, 1, Len(lastOp.before)) = lastOp.before
              /\ lastOp.after[Len(lastOp.after)].name = lastOp.name
              /\ lastOp.after[Len(lastOp.after)].parent = lastOp.parent
              /\ ~lastOp.after[Len(lastOp.after)].folder

C6_Witness ==
    /\ lastOp.op = "upload_file" /\ lastOp.uploaded
    /\ \E i \in 1..Len(lastOp.before) :
          /\ ~lastOp.before[i].folder
          /\ lastOp.before[i].parent = lastOp.parent
          /\ lastOp.before[i].name = lastOp.name
          /\ lastOp.before[i].md5 # lastOp.md5
    /\ remote = lastOp.after

Min(S) == CHOOSE x \in S : \A y \in S : x <= y

\* C7 - folder resolver: with a folder of that name under the parent it returns
\* the first such id and changes nothing; with none it adds exactly one folder
\* of that name and parent and returns its id.  A second resolution of the same
\* (parent, name) returns the same id and creates nothing.
C7_FolderResolver ==
    /\ lastOp.op = "get_or_create_folder" =>
          LET existing == FoldersAt(lastOp.before, lastOp.parent, lastOp.name)
          IN  IF existing # {}
              THEN lastOp.id = Min(existing) /\ lastOp.after = lastOp.before
              ELSE /\ lastOp.after = Append(lastOp.before,
                                            NewFolder(lastOp.name, lastOp.parent))
                   /\ lastOp.id = Len(lastOp.after)
    /\ run = "rerun" =>
          \A j \in 1..Len(firstLog) : \A k \in DirsVisited :
              (firstLog[j].kind = "dir" /\ firstLog[j].parent = log[k].parent
               /\ firstLog[j].name = log[k].name)
              => (log[k].id = firstLog[j].id /\ ~log[k].created)

C7_Witness ==
    /\ run = "rerun"
    /\ lastOp.op = "get_or_create_folder"
    /\ \E j \in Created(firstLog, "dir") :
          firstLog[j].parent = lastOp.parent /\ firstLog[j].name = lastOp.name
    /\ lastOp.parent # TargetId

\* C8 - abort on remote error: once a remote call has failed the run is failed,
\* every frame has been left, no further remote call is issued and the failed
\* call is not repeated.
C8_AbortOnError ==
    errors > 0 =>
        /\ status = "failed"
        /\ stack = <<>>
        /\ errors = 1
        /\ calls = callsAtError

C8_Witness ==
    /\ status = "failed" /\ errors = 1
    /\ tree = <<Dir("a", <<File("a", 1)>>), File("b", 1)>>
    /\ Len(log) = 1
    /\ calls = 3

SameEntry(e, f) ==
    e.kind = f.kind /\ e.parent = f.parent /\ e.name = f.name /\ e.md5 = f.md5

\* C9 - abort and rerun: a completed rerun after an aborted run has walked the
\* whole tree, has created nothing the aborted run created, and leaves the
\* remote store one uninterrupted run from the original remote store leaves.
C9_Converges ==
    /\ (status = "done" /\ run = "first") =>
          remote = UploadDirectory(tree, TargetId, remote0)
    /\ (status = "done" /\ run = "rerun" /\ first = "failed") =>
          /\ Len(log) = Size(tree)
          /\ \A k \in 1..Len(log) : log[k].created =>
                \A j \in 1..Len(firstLog) :
                    firstLog[j].created => ~SameEntry(log[k], firstLog[j])
          /\ remote = UploadDirectory(tree, TargetId, remote0)

C9_Witness ==
    /\ status = "done" /\ run = "rerun" /\ first = "failed"
    /\ Created(firstLog, "dir") # {}
    /\ Created(firstLog, "file") # {}
    /\ Created(log, "file") # {}

\* the entries of a listing in depth-first order, a directory before its content
RECURSIVE Preorder(_, _)
Preorder(items, path) ==
    IF items = <<>> THEN <<>>
    ELSE <<[kind |-> Head(items).kind, path |-> Append(path, Head(items).name)]>>
         \o Preorder(Head(items).children, Append(path, Head(items).name))
         \o Preorder(Tail(items), path)

Visited == [k \in 1..Len(log) |-> [kind |-> log[k].kind, path |-> log[k].path]]

\* C10 - termination: with every remote call returning, a run that has started
\* finishes, having visited every directory and file once in depth-first
\* order; an upload in progress has no response yet.
C10_Terminates ==
    /\ <>(status = "done")
    /\ (status = "running") ~> (status = "done")
    /\ [](status = "done" => Visited = Preorder(tree, <<>>))
    /\ [](pc = "upload" => sent < NumChunks(Item.content))

C10_Witness ==
    /\ status = "done"
    /\ tree = <<Dir("a", <<File("a", 2)>>), File("b", 1)>>
    /\ Len(log) = 3

====
